---- MODULE Spec2Model ----
(***************************************************************************)
(* Chimera Navigator: the HTTP API, the data-access layer and the chat     *)
(* relay, as a state machine over the relational store.                    *)
(*                                                                         *)
(* A handler suspends at every await of a storage or delegate call, so a   *)
(* handler with several awaits is several actions, and the handlers of     *)
(* concurrent requests interleave between them.                            *)
(***************************************************************************)
EXTENDS Integers, Sequences, FiniteSets, Bags, TLC

VARIABLES
    users,      \* table users: row id = index (serial)
    projects,   \* table projects
    logs,       \* table logs (append-only): a bag of rows
    files,      \* table project_files
    analysis,   \* table analysis_results
    chats,      \* table ai_chats
    pcr,        \* in-flight POST /api/projects handlers, one per slot
    up,         \* in-flight POST /api/projects/:id/files handlers
    ws,         \* in-flight chat messages of the relay
    clock,      \* the server's clock, read by new Date() and defaultNow();
                \* it is observed to advance at every write of a chat row
    openai,     \* whether OPENAI_API_KEY is configured (fixed at start-up)
    ms,         \* in-flight POST /api/ai/modify-schema handlers
    last        \* the response of the last handler that answered in one step

vars == <<users, projects, logs, files, analysis, chats, pcr, up, ws, clock, openai, ms, last>>
ingestVars == <<files, analysis, up>>
chatVars == <<chats, ws, clock>>

----------------------------------------------------------------------------
(* Bounds *)

MaxReqs == 2            \* POST /api/projects requests in a behaviour
MaxAccountLogs == 1     \* account-level log entries, one per upgrade
MaxBodyCredit == 1      \* largest credits value a registration body carries
MaxUploads == 2         \* upload requests in a behaviour
MaxFiles == 2           \* files in one upload body
MaxSockets == 2         \* chat messages in a behaviour
MaxMods == 1            \* schema-modification requests in a behaviour

----------------------------------------------------------------------------
(* Values *)

\* A nullable integer column: <<>> is SQL NULL, <<n>> is the integer n.
Null == <<>>
Num(n) == <<n>>
IsNull(c) == c = Null
Val(c) == c[1]

Uids == {"uidA", "uidB"}
NoHeader == "none"
Headers == Uids \cup {NoHeader}
Reqs == 1..MaxReqs
Uploads == 1..MaxUploads
Sockets == 1..MaxSockets
Mods == 1..MaxMods
NoUser == 0
NoProject == 0

\* A request body is a record; a field the caller left out is not in its domain.
Has(body, f) == f \in DOMAIN body
Field(body, f, default) == IF Has(body, f) THEN body[f] ELSE default

BodyCredits == {Null} \cup {Num(n) : n \in 0..MaxBodyCredit}

\* Bodies of POST /api/users.  firebaseUid stands for the NOT NULL columns
\* (firebaseUid, email); the last body lacks them.
DefaultUserBodies == {[firebaseUid |-> u] : u \in Uids}
UserBodies ==
    DefaultUserBodies
    \cup {[firebaseUid |-> u, accountTier |-> t] : u \in Uids, t \in {"free", "pro"}}
    \cup {[firebaseUid |-> u, credits |-> c] : u \in Uids, c \in BodyCredits}
    \cup {[firebaseUid |-> u, accountTier |-> t, credits |-> c] :
            u \in Uids, t \in {"free", "pro"}, c \in BodyCredits}
    \cup {[displayName |-> "x"]}

\* Bodies of POST /api/projects.
ProjectBodies ==
    {[name |-> "p"], [name |-> "p", status |-> "completed"], [description |-> "d"]}

----------------------------------------------------------------------------
(* Data-access layer (server/storage.ts) *)

UserIds == 1..Len(users)
ProjectIds == 1..Len(projects)

\* getUser(id): the id of the row, NoUser when there is none.
getUser(id) == IF id \in UserIds THEN id ELSE NoUser

\* getUserByFirebaseUid(uid): the id of the row with that uid, NoUser if none.
getUserByFirebaseUid(uid) ==
    IF \E i \in UserIds : users[i].firebaseUid = uid
    THEN CHOOSE i \in UserIds : users[i].firebaseUid = uid
    ELSE NoUser

\* The row createUser inserts: the columns the body leaves out take the
\* column defaults of the users table.
UserRow(body) ==
    [firebaseUid |-> body.firebaseUid,
     accountTier |-> Field(body, "accountTier", "free"),
     credits     |-> Field(body, "credits", Num(1))]

\* canUserCreateProject with the comparison off by one: zero credits pass.
canUserCreateProjectZeroPasses(userId) ==
    IF userId \notin UserIds THEN FALSE
    ELSE IF users[userId].accountTier = "pro" THEN TRUE
    ELSE (IF IsNull(users[userId].credits) THEN 0 ELSE Val(users[userId].credits)) >= 0

\* canUserCreateProject(userId), on the stored row.
canUserCreateProject(userId) ==
    IF userId \notin UserIds THEN FALSE
    ELSE IF users[userId].accountTier = "pro" THEN TRUE
    ELSE (IF IsNull(users[userId].credits) THEN 0 ELSE Val(users[userId].credits)) > 0

\* updateUserCredits(userId, credits): UPDATE ... WHERE id = userId.
updateUserCredits(userId, credits) ==
    IF userId \in UserIds
    THEN [users EXCEPT ![userId].credits = credits]
    ELSE users

\* The upgrade leaves the credits as they are.
upgradeUserAccountKeepsCredits(userId) ==
    IF userId \in UserIds
    THEN [users EXCEPT ![userId].accountTier = "pro"]
    ELSE users

\* upgradeUserAccount(userId).
upgradeUserAccount(userId) ==
    IF userId \in UserIds
    THEN [users EXCEPT ![userId].accountTier = "pro", ![userId].credits = Null]
    ELSE users

\* The downgrade leaves the credits as they are.
downgradeUserKeepsCredits(userId) ==
    IF userId \in UserIds
    THEN [users EXCEPT ![userId].accountTier = "free"]
    ELSE users

\* updateUser(id, {accountTier: 'free', credits: 1}), the downgrade.
downgradeUser(userId) ==
    IF userId \in UserIds
    THEN [users EXCEPT ![userId].accountTier = "free", ![userId].credits = Num(1)]
    ELSE users

\* The row createProject inserts: status defaults to 'pending'.
ProjectRow(body, userId) ==
    [userId |-> userId, status |-> Field(body, "status", "pending")]

\* createLog({projectId, level, ...}): the table with the row added.
createLog(projectId, level) ==
    logs (+) SetToBag({[projectId |-> projectId, level |-> level]})

\* The number of log rows of a project (NoProject: account level) and level.
LogCount(projectId, level) ==
    CopiesIn([projectId |-> projectId, level |-> level], logs)

\* There is room for one more account-level log entry.
RoomForAccountLog == LogCount(NoProject, "INFO") < MaxAccountLogs

\* requireAuth: the x-firebase-uid header must be present.
requireAuth(hdr) == hdr # NoHeader

----------------------------------------------------------------------------
(* Initial state: an empty store, no request in flight *)

\* The locals of one POST /api/projects handler: the user row it read
\* (id, accountTier, credits), the project it created, the status it sent.
IdleReq ==
    [pc |-> "idle", user |-> NoUser, tier |-> "free", credits |-> Null,
     project |-> NoProject, status |-> 0]

\* The handler has responded: its locals are gone.
Done(status) == [IdleReq EXCEPT !.pc = "done", !.status = status]

\* The locals of one upload handler: the caller and the project, the files
\* of the body and how many are saved, the rows analyzeProject read and the
\* file names it aggregated, whether it found an AnalysisResult.
IdleUpload ==
    [pc |-> "idle", user |-> NoUser, project |-> NoProject, body |-> [files |-> <<>>],
     saved |-> 0, read |-> {}, astData |-> {}, existing |-> FALSE, status |-> 0]

\* The upload handler has responded with savedFiles (their number).
UploadDone(req, status, saved) ==
    [IdleUpload EXCEPT !.pc = "done", !.user = req.user, !.project = req.project,
                       !.body = req.body, !.status = status, !.saved = saved]

\* One chat message on its connection: the fields of the message, the chat
\* row and the message list the handler holds, the frame it answers with
\* and whether the frame went out.
IdleSocket ==
    [pc |-> "idle", userId |-> NoUser, projectId |-> NoProject,
     content |-> "", chat |-> 0, messages |-> <<>>, frame |-> "none",
     delivered |-> FALSE]

\* The locals of a schema-modification handler; `responses` counts the
\* res.json / res.status().json calls it made.
IdleMod ==
    [pc |-> "idle", hdr |-> NoHeader, project |-> NoProject, success |-> FALSE,
     schema |-> "null", code |-> Null, status |-> 0, responses |-> 0]

NoResponse == [ep |-> "none", hdr |-> NoHeader, target |-> 0, status |-> 0, data |-> 0]

Init ==
    /\ users = <<>>
    /\ projects = <<>>
    /\ logs = EmptyBag
    /\ files = <<>>
    /\ analysis = <<>>
    /\ chats = <<>>
    /\ pcr = [r \in Reqs |-> IdleReq]
    /\ up = [u \in Uploads |-> IdleUpload]
    /\ ws = [w \in Sockets |-> IdleSocket]
    /\ clock = 0
    /\ openai \in BOOLEAN
    /\ ms = [m \in Mods |-> IdleMod]
    /\ last = NoResponse

Respond(ep, hdr, target, status, data) ==
    [ep |-> ep, hdr |-> hdr, target |-> target, status |-> status, data |-> data]

----------------------------------------------------------------------------
(* POST /api/users: no requireAuth, the body goes to createUser as it is *)

CreateUser(hdr, body) ==
    /\ IF /\ Has(body, "firebaseUid")
          /\ getUserByFirebaseUid(body.firebaseUid) = NoUser
       THEN /\ users' = Append(users, UserRow(body))
            /\ last' = Respond("createUser", hdr, 0, 200, Len(users) + 1)
       ELSE \* NOT NULL or UNIQUE violation: the insert throws
            /\ users' = users
            /\ last' = Respond("createUser", hdr, 0, 500, 0)
    /\ UNCHANGED <<projects, logs, pcr, ingestVars, chatVars, openai, ms>>

----------------------------------------------------------------------------
(* POST /api/projects *)

\* The request arrives; requireAuth; await getUserByFirebaseUid.
PostProjects(r, hdr) ==
    /\ pcr[r].pc = "idle"
    /\ \A q \in 1..(r - 1) : pcr[q].pc # "idle"    \* slots are taken in order
    /\ LET uid == getUserByFirebaseUid(hdr) IN
       pcr' = [pcr EXCEPT ![r] =
                 IF ~requireAuth(hdr) THEN Done(401)
                 ELSE IF uid = NoUser THEN Done(404)
                 ELSE [IdleReq EXCEPT !.pc = "gate",
                                      !.user = uid,
                                      !.tier = users[uid].accountTier,
                                      !.credits = users[uid].credits]]
    /\ UNCHANGED <<users, projects, logs, last, ingestVars, chatVars, openai, ms>>

\* await canUserCreateProject(user.id); on false, 403 with the snapshot's
\* tier and credits.
CheckCanCreate(r) ==
    /\ pcr[r].pc = "gate"
    /\ pcr' = [pcr EXCEPT ![r] =
                 IF canUserCreateProject(pcr[r].user)
                 THEN [@ EXCEPT !.pc = "create"]
                 ELSE Done(403)]
    /\ UNCHANGED <<users, projects, logs, last, ingestVars, chatVars, openai, ms>>

\* The deduction without its tier test.
DeductsAnyTier(req) == ~IsNull(req.credits)

\* The deduction runs only for a snapshot that is free with non-null credits.
Deducts(req) == req.tier = "free" /\ ~IsNull(req.credits)

\* insertProjectSchema.parse({...req.body, userId}) (name is required), then
\* await createProject.  Nothing reads the body before this point.
CreateProject(r, body) ==
    /\ pcr[r].pc = "create"
    /\ IF ~Has(body, "name")
       THEN /\ pcr' = [pcr EXCEPT ![r] = Done(500)]
            /\ projects' = projects
       ELSE /\ projects' = Append(projects, ProjectRow(body, pcr[r].user))
            /\ pcr' = [pcr EXCEPT ![r].project = Len(projects) + 1,
                                  ![r].pc = IF Deducts(pcr[r]) THEN "deduct" ELSE "log"]
    /\ UNCHANGED <<users, logs, last, ingestVars, chatVars, openai, ms>>

\* await updateUserCredits(user.id, user.credits - 1), from the snapshot.
DeductCredit(r) ==
    /\ pcr[r].pc = "deduct"
    /\ users' = updateUserCredits(pcr[r].user, Num(Val(pcr[r].credits) - 1))
    /\ pcr' = [pcr EXCEPT ![r].pc = "log"]
    /\ UNCHANGED <<projects, logs, last, ingestVars, chatVars, openai, ms>>

\* await createLog; res.json(project).
LogProjectCreated(r) ==
    /\ pcr[r].pc = "log"
    /\ logs' = createLog(pcr[r].project, "INFO")
    /\ pcr' = [pcr EXCEPT ![r] = Done(200)]
    /\ UNCHANGED <<users, projects, last, ingestVars, chatVars, openai, ms>>

----------------------------------------------------------------------------
(* POST /api/users/:id/upgrade: the manual upgrade, no payment involved *)

UpgradeAccount(hdr, id) ==
    /\ IF ~requireAuth(hdr) THEN
           /\ last' = Respond("upgrade", hdr, 0, 401, 0)
           /\ UNCHANGED <<users, logs>>
       ELSE IF getUser(id) = NoUser THEN
           /\ last' = Respond("upgrade", hdr, id, 404, 0)
           /\ UNCHANGED <<users, logs>>
       ELSE IF getUserByFirebaseUid(hdr) # id THEN
           /\ last' = Respond("upgrade", hdr, id, 403, 0)
           /\ UNCHANGED <<users, logs>>
       ELSE
           /\ RoomForAccountLog
           /\ users' = upgradeUserAccount(id)
           /\ logs' = createLog(NoProject, "INFO")
           /\ last' = Respond("upgrade", hdr, id, 200, 0)
    /\ UNCHANGED <<projects, pcr, ingestVars, chatVars, openai, ms>>

----------------------------------------------------------------------------
(* POST /api/stripe/webhook *)

\* The user ids a customer's metadata may carry.
KnownIds == 1..Cardinality(Uids)

EventTypes ==
    {"customer.subscription.created", "customer.subscription.updated",
     "customer.subscription.deleted", "invoice.paid"}

\* An event and the customer it names: userId is the customer's metadata
\* entry, left out when the customer carries none.
Events ==
    {[type |-> t, status |-> s] : t \in EventTypes, s \in {"active", "past_due"}}
    \cup {[type |-> t, status |-> s, userId |-> u] :
            t \in EventTypes, s \in {"active", "past_due"}, u \in KnownIds}

\* The event is handled whether or not its signature verifies.
StripeWebhookUnverified(sigOk, retrieveOk, ev) ==
    /\ LET target == 0 IN
       IF FALSE THEN
           /\ last' = Respond("webhook", NoHeader, target, 400, 0)
           /\ UNCHANGED <<users, logs>>
       ELSE IF ev.type \in {"customer.subscription.created",
                            "customer.subscription.updated"} THEN
           IF ~retrieveOk THEN
               /\ last' = Respond("webhook", NoHeader, target, 500, 0)
               /\ UNCHANGED <<users, logs>>
           ELSE IF Has(ev, "userId") /\ ev.status = "active" THEN
               /\ RoomForAccountLog
               /\ users' = upgradeUserAccount(ev.userId)
               /\ logs' = createLog(NoProject, "INFO")
               /\ last' = Respond("webhook", NoHeader, target, 200, 0)
           ELSE
               /\ last' = Respond("webhook", NoHeader, target, 200, 0)
               /\ UNCHANGED <<users, logs>>
       ELSE IF ev.type = "customer.subscription.deleted" THEN
           IF ~retrieveOk THEN
               /\ last' = Respond("webhook", NoHeader, target, 500, 0)
               /\ UNCHANGED <<users, logs>>
           ELSE IF Has(ev, "userId") THEN
               /\ users' = downgradeUser(ev.userId)
               /\ last' = Respond("webhook", NoHeader, target, 200, 0)
               /\ UNCHANGED logs
           ELSE
               /\ last' = Respond("webhook", NoHeader, target, 200, 0)
               /\ UNCHANGED <<users, logs>>
       ELSE
           /\ last' = Respond("webhook", NoHeader, target, 200, 0)
           /\ UNCHANGED <<users, logs>>
    /\ UNCHANGED <<projects, pcr, ingestVars, chatVars, openai, ms>>

\* sigOk: constructEvent verifies the signature; retrieveOk: the call
\* stripe.customers.retrieve returns rather than throws.
StripeWebhook(sigOk, retrieveOk, ev) ==
    /\ LET target == 0 IN
       IF ~sigOk THEN
           /\ last' = Respond("webhook", NoHeader, target, 400, 0)
           /\ UNCHANGED <<users, logs>>
       ELSE IF ev.type \in {"customer.subscription.created",
                            "customer.subscription.updated"} THEN
           IF ~retrieveOk THEN
               /\ last' = Respond("webhook", NoHeader, target, 500, 0)
               /\ UNCHANGED <<users, logs>>
           ELSE IF Has(ev, "userId") /\ ev.status = "active" THEN
               /\ RoomForAccountLog
               /\ users' = upgradeUserAccount(ev.userId)
               /\ logs' = createLog(NoProject, "INFO")
               /\ last' = Respond("webhook", NoHeader, target, 200, 0)
           ELSE
               /\ last' = Respond("webhook", NoHeader, target, 200, 0)
               /\ UNCHANGED <<users, logs>>
       ELSE IF ev.type = "customer.subscription.deleted" THEN
           IF ~retrieveOk THEN
               /\ last' = Respond("webhook", NoHeader, target, 500, 0)
               /\ UNCHANGED <<users, logs>>
           ELSE IF Has(ev, "userId") THEN
               /\ users' = downgradeUser(ev.userId)
               /\ last' = Respond("webhook", NoHeader, target, 200, 0)
               /\ UNCHANGED logs
           ELSE
               /\ last' = Respond("webhook", NoHeader, target, 200, 0)
               /\ UNCHANGED <<users, logs>>
       ELSE
           /\ last' = Respond("webhook", NoHeader, target, 200, 0)
           /\ UNCHANGED <<users, logs>>
    /\ UNCHANGED <<projects, pcr, ingestVars, chatVars, openai, ms>>

----------------------------------------------------------------------------
(* Project-keyed endpoints: requireAuth, getProject, ownership *)

\* The ownership test with the comparison of the owner left out.
IsOwnerAnyUser(hdr, id) == getUserByFirebaseUid(hdr) # NoUser

\* `!user || project.userId !== user.id` is false.
IsOwner(hdr, id) ==
    /\ getUserByFirebaseUid(hdr) # NoUser
    /\ projects[id].userId = getUserByFirebaseUid(hdr)

\* The status the common preamble answers with; 200 when it lets the
\* request through.
Access(hdr, id) ==
    IF ~requireAuth(hdr) THEN 401
    ELSE IF id \notin ProjectIds THEN 404
    ELSE IF ~IsOwner(hdr, id) THEN 403
    ELSE 200

\* The project ids a request may name: the existing ones and one that is not.
TargetIds == 1..(Len(projects) + 1)

\* The analysis_results rows of a project.
ResultsOf(id) == {a \in 1..Len(analysis) : analysis[a].projectId = id}

\* The project_files rows of a project.
FilesOf(id) == {f \in 1..Len(files) : files[f].projectId = id}

\* GET /api/projects/:id
GetProject(hdr, id) ==
    /\ last' = Respond("getProject", hdr, id, Access(hdr, id),
                       IF Access(hdr, id) = 200 THEN id ELSE 0)
    /\ UNCHANGED <<users, projects, logs, pcr, ingestVars, chatVars, openai, ms>>

\* The endpoint answers with the default object whatever is stored.
GetResultsAlwaysDefault(hdr, id) ==
    /\ last' = Respond("getResults", hdr, id, Access(hdr, id), 0)
    /\ UNCHANGED <<users, projects, logs, pcr, ingestVars, chatVars, openai, ms>>

\* GET /api/projects/:id/results: the stored row (any one when the select
\* finds several: it has no ORDER BY), or the default object.
GetResults(hdr, id) ==
    /\ \E a \in (IF Access(hdr, id) = 200 /\ ResultsOf(id) # {} THEN ResultsOf(id) ELSE {0}) :
         last' = Respond("getResults", hdr, id, Access(hdr, id), a)
    /\ UNCHANGED <<users, projects, logs, pcr, ingestVars, chatVars, openai, ms>>

\* GET /api/projects/:id/logs
GetLogs(hdr, id) ==
    /\ last' = Respond("getLogs", hdr, id, Access(hdr, id), 0)
    /\ UNCHANGED <<users, projects, logs, pcr, ingestVars, chatVars, openai, ms>>

\* POST /api/ai/review/:projectId: generateCodeReview throws without a key,
\* without an AnalysisResult, or when the completion call fails (~aiOk).
GenerateReview(hdr, id, aiOk) ==
    /\ last' = Respond("review", hdr, id,
                       IF Access(hdr, id) # 200 THEN Access(hdr, id)
                       ELSE IF openai /\ ResultsOf(id) # {} /\ aiOk THEN 200
                       ELSE 500,
                       0)
    /\ UNCHANGED <<users, projects, logs, pcr, ingestVars, chatVars, openai, ms>>

----------------------------------------------------------------------------
(* POST /api/projects/:id/files *)

FileNames == {"a.tsx", "b.tsx"}

\* A file tuple of the body; one without path fails insertProjectFileSchema.
FileTuples ==
    {[filename |-> n, path |-> "src"] : n \in FileNames} \cup {[filename |-> "a.tsx"]}

ValidFile(file) == Has(file, "path")

FileLists == UNION {[1..n -> FileTuples] : n \in 0..MaxFiles}

\* Bodies of the upload: with a files array, or without one.
UploadBodies == {[files |-> l] : l \in FileLists} \cup {[other |-> "x"]}

\* The loop leaves one tuple out.
AfterSaveOffByOne(body, saved) ==
    IF ~Has(body, "files") THEN "throw"
    ELSE IF saved + 1 >= Len(body.files) THEN "analyze"
    ELSE IF ~ValidFile(body.files[saved + 1]) THEN "throw"
    ELSE "save"

\* Where the handler stands once `saved` files are saved: the loop goes on,
\* the next tuple (or a missing files array) throws, or the analysis starts.
AfterSave(body, saved) ==
    IF ~Has(body, "files") THEN "throw"
    ELSE IF saved = Len(body.files) THEN "analyze"
    ELSE IF ~ValidFile(body.files[saved + 1]) THEN "throw"
    ELSE "save"

\* The handler after an await returned with `saved` files saved: a throw in
\* the loop is caught by the outer catch, which answers 500.
Continue(req, saved) ==
    IF AfterSave(req.body, saved) = "throw"
    THEN UploadDone(req, 500, saved)
    ELSE [req EXCEPT !.pc = AfterSave(req.body, saved), !.saved = saved]

\* The request arrives: the preamble, then await updateProject(processing).
PostFiles(u, hdr, id, body) ==
    /\ up[u].pc = "idle"
    /\ \A q \in 1..(u - 1) : up[q].pc # "idle"    \* slots are taken in order
    /\ IF Access(hdr, id) # 200
       THEN /\ last' = Respond("upload", hdr, id, Access(hdr, id), 0)
            /\ UNCHANGED <<projects, up>>
       ELSE /\ projects' = [projects EXCEPT ![id].status = "processing"]
            /\ up' = [up EXCEPT ![u] =
                        Continue([IdleUpload EXCEPT !.user = getUserByFirebaseUid(hdr),
                                                    !.project = id,
                                                    !.body = body], 0)]
            /\ UNCHANGED last
    /\ UNCHANGED <<users, logs, files, analysis, pcr, chatVars, openai, ms>>

\* One turn of the loop: await createProjectFile, await createLog (INFO).
SaveFile(u) ==
    /\ up[u].pc = "save"
    /\ files' = Append(files, [projectId |-> up[u].project,
                               filename |-> up[u].body.files[up[u].saved + 1].filename])
    /\ logs' = createLog(up[u].project, "INFO")
    /\ up' = [up EXCEPT ![u] = Continue(@, up[u].saved + 1)]
    /\ UNCHANGED <<users, projects, analysis, pcr, chatVars, openai, ms, last>>

\* analyzeProject begins: checkOpenAI, then await getProjectFiles.
ReadFiles(u) ==
    /\ up[u].pc = "analyze"
    /\ openai
    /\ up' = [up EXCEPT ![u].pc = "aggregate", ![u].read = FilesOf(up[u].project)]
    /\ UNCHANGED <<users, projects, logs, files, analysis, pcr, chatVars, openai, ms, last>>

\* The missing key is handled as any other analysis error.
SkipAnalysisFails(u) ==
    /\ up[u].pc = "analyze"
    /\ ~openai
    /\ projects' = [projects EXCEPT ![up[u].project].status = "error"]
    /\ logs' = createLog(up[u].project, "ERROR")
    /\ up' = [up EXCEPT ![u] = UploadDone(@, 500, up[u].saved)]
    /\ UNCHANGED <<users, files, analysis, pcr, chatVars, openai, ms, last>>

\* checkOpenAI throws 'OpenAI API key not configured': the upload completes
\* with a WARNING (await updateProject, await createLog, res.json).
SkipAnalysis(u) ==
    /\ up[u].pc = "analyze"
    /\ ~openai
    /\ projects' = [projects EXCEPT ![up[u].project].status = "completed"]
    /\ logs' = createLog(up[u].project, "WARNING")
    /\ up' = [up EXCEPT ![u] = UploadDone(@, 200, up[u].saved)]
    /\ UNCHANGED <<users, files, analysis, pcr, chatVars, openai, ms, last>>

\* A file whose analyzeCode call throws aborts the analysis.
AnalyzeFilesAborts(u, analysed) ==
    /\ up[u].pc = "aggregate"
    /\ analysed \subseteq up[u].read
    /\ up' = IF analysed = up[u].read
             THEN [up EXCEPT ![u].pc = "store",
                             ![u].astData = {files[f].filename : f \in analysed},
                             ![u].existing = (ResultsOf(up[u].project) # {})]
             ELSE [up EXCEPT ![u].pc = "failed"]
    /\ UNCHANGED <<users, projects, logs, files, analysis, pcr, chatVars, openai, ms, last>>

\* The per-file loop of analyzeProject: analyzeCode succeeds for the files
\* in `analysed` and throws (caught, logged) for the others; then await
\* getAnalysisResult.
AnalyzeFiles(u, analysed) ==
    /\ up[u].pc = "aggregate"
    /\ analysed \subseteq up[u].read
    /\ up' = [up EXCEPT ![u].pc = "store",
                        ![u].astData = {files[f].filename : f \in analysed},
                        ![u].existing = (ResultsOf(up[u].project) # {})]
    /\ UNCHANGED <<users, projects, logs, files, analysis, pcr, chatVars, openai, ms, last>>

\* await updateAnalysisResult or createAnalysisResult; the call throws
\* when the store fails (~dbOk).
StoreAnalysis(u, dbOk) ==
    /\ up[u].pc = "store"
    /\ IF ~dbOk THEN
           /\ analysis' = analysis
           /\ up' = [up EXCEPT ![u].pc = "failed"]
       ELSE
           /\ analysis' =
                IF up[u].existing
                THEN [a \in 1..Len(analysis) |->
                        IF analysis[a].projectId = up[u].project
                        THEN [analysis[a] EXCEPT !.astData = up[u].astData, !.schema = "null"]
                        ELSE analysis[a]]
                ELSE Append(analysis, [projectId |-> up[u].project,
                                       astData |-> up[u].astData, schema |-> "null"])
           /\ up' = [up EXCEPT ![u].pc = "analysed"]
    /\ UNCHANGED <<users, projects, logs, files, pcr, chatVars, openai, ms, last>>

\* await updateProject(completed), await createLog (SUCCESS), res.json.
CompleteUpload(u) ==
    /\ up[u].pc = "analysed"
    /\ projects' = [projects EXCEPT ![up[u].project].status = "completed"]
    /\ logs' = createLog(up[u].project, "SUCCESS")
    /\ up' = [up EXCEPT ![u] = UploadDone(@, 200, up[u].saved)]
    /\ UNCHANGED <<users, files, analysis, pcr, chatVars, openai, ms, last>>

\* The files of the project are deleted when the analysis fails.
FailUploadRollsBack(u) ==
    /\ up[u].pc = "failed"
    /\ projects' = [projects EXCEPT ![up[u].project].status = "error"]
    /\ logs' = createLog(up[u].project, "ERROR")
    /\ files' = SelectSeq(files, LAMBDA f : f.projectId # up[u].project)
    /\ up' = [up EXCEPT ![u] = UploadDone(@, 500, up[u].saved)]
    /\ UNCHANGED <<users, analysis, pcr, chatVars, openai, ms, last>>

\* The analysis error is swallowed: the upload completes.
FailUploadCompletes(u) ==
    /\ up[u].pc = "failed"
    /\ projects' = [projects EXCEPT ![up[u].project].status = "completed"]
    /\ logs' = createLog(up[u].project, "SUCCESS")
    /\ up' = [up EXCEPT ![u] = UploadDone(@, 200, up[u].saved)]
    /\ UNCHANGED <<users, files, analysis, pcr, chatVars, openai, ms, last>>

\* Another analysis error: await updateProject(error), await createLog
\* (ERROR), rethrow; the outer catch answers 500.
FailUpload(u) ==
    /\ up[u].pc = "failed"
    /\ projects' = [projects EXCEPT ![up[u].project].status = "error"]
    /\ logs' = createLog(up[u].project, "ERROR")
    /\ up' = [up EXCEPT ![u] = UploadDone(@, 500, up[u].saved)]
    /\ UNCHANGED <<users, files, analysis, pcr, chatVars, openai, ms, last>>

----------------------------------------------------------------------------
(* Chat: the relay on /ws and GET /api/ai/chat/:userId *)

Contents == {"x", "y"}
Replies == {"a"}

\* Inbound frames: a chat message (projectId left out when the chat is not
\* scoped to a project), a frame of another type, a frame that is not JSON.
ChatFrames ==
    {[type |-> "ai_chat", userId |-> i, content |-> c] : i \in KnownIds, c \in Contents}
    \cup {[type |-> "ai_chat", userId |-> i, projectId |-> p, content |-> c] :
            i \in KnownIds, p \in TargetIds, c \in Contents}
Frames == ChatFrames \cup {[type |-> "ping"], [malformed |-> TRUE]}

\* The rows getAiChat's WHERE clause selects: by user and project when a
\* projectId is given, by user alone otherwise.
ChatsMatching(userId, projectId) ==
    {c \in 1..Len(chats) :
        /\ chats[c].userId = userId
        /\ projectId # NoProject => chats[c].projectId = projectId}

\* getAiChat(userId, projectId): the most recently updated matching row, 0
\* when there is none.
getAiChat(userId, projectId) ==
    IF ChatsMatching(userId, projectId) = {} THEN 0
    ELSE CHOOSE c \in ChatsMatching(userId, projectId) :
             \A d \in ChatsMatching(userId, projectId) :
                 chats[d].updatedAt <= chats[c].updatedAt

Entry(role, content) == [role |-> role, content |-> content, timestamp |-> clock]

\* The handler is done; the frame goes out only when the socket's
\* readyState is still OPEN.
Sent(open, frame) ==
    [IdleSocket EXCEPT !.pc = "done", !.frame = frame,
                       !.delivered = (open /\ frame # "none")]

\* The user entry is not pushed.
AskAIWithoutUserEntry(req, open, chat, messages) ==
    IF ~openai THEN Sent(open, "error")
    ELSE [req EXCEPT !.pc = "ai", !.chat = chat, !.messages = messages]

\* With the chat row in hand: push the user entry, call
\* generateChatResponse, whose checkOpenAI throws without a key.
AskAI(req, open, chat, messages) ==
    IF ~openai THEN Sent(open, "error")
    ELSE [req EXCEPT !.pc = "ai", !.chat = chat,
                     !.messages = Append(messages, Entry("user", req.content))]

\* A message arrives: JSON.parse, then await getAiChat.
ReceiveFrame(w, open, frame) ==
    /\ ws[w].pc = "idle"
    /\ \A q \in 1..(w - 1) : ws[q].pc # "idle"    \* slots are taken in order
    /\ LET req == [ws[w] EXCEPT !.userId = Field(frame, "userId", NoUser),
                                !.projectId = Field(frame, "projectId", NoProject),
                                !.content = Field(frame, "content", "")]
           chat == getAiChat(req.userId, req.projectId)
       IN ws' = [ws EXCEPT ![w] =
                   IF Has(frame, "malformed") THEN Sent(open, "error")
                   ELSE IF frame.type # "ai_chat" THEN Sent(open, "none")
                   ELSE IF chat = 0 THEN [req EXCEPT !.pc = "create"]
                   ELSE AskAI(req, open, chat, chats[chat].messages)]
    /\ UNCHANGED <<users, projects, logs, pcr, ingestVars, chats, clock, openai, ms, last>>

\* await createAiChat: the insert throws when userId or projectId names no
\* row (foreign keys).
CreateChat(w, open) ==
    /\ ws[w].pc = "create"
    /\ IF /\ ws[w].userId \in UserIds
          /\ ws[w].projectId \in ProjectIds \cup {NoProject}
       THEN /\ chats' = Append(chats, [userId |-> ws[w].userId,
                                       projectId |-> ws[w].projectId,
                                       messages |-> <<>>,
                                       updatedAt |-> clock])
            /\ clock' = clock + 1
            /\ ws' = [ws EXCEPT ![w] = AskAI(@, open, Len(chats) + 1, <<>>)]
       ELSE /\ UNCHANGED <<chats, clock>>
            /\ ws' = [ws EXCEPT ![w] = Sent(open, "error")]
    /\ UNCHANGED <<users, projects, logs, pcr, ingestVars, openai, ms, last>>

\* A failed call leaves the user entry in the stored list.
ChatResponseKeepsUserEntry(w, open, aiOk, reply) ==
    /\ ws[w].pc = "ai"
    /\ ws' = [ws EXCEPT ![w] =
                IF aiOk
                THEN [@ EXCEPT !.pc = "update",
                               !.messages = Append(@, Entry("assistant", reply))]
                ELSE Sent(open, "error")]
    /\ chats' = IF aiOk THEN chats
                ELSE [chats EXCEPT ![ws[w].chat].messages = ws[w].messages]
    /\ UNCHANGED <<users, projects, logs, pcr, ingestVars, clock, openai, ms, last>>

\* generateChatResponse returns the reply, or throws (~aiOk); the reply is
\* pushed as the assistant entry.
ChatResponse(w, open, aiOk, reply) ==
    /\ ws[w].pc = "ai"
    /\ ws' = [ws EXCEPT ![w] =
                IF aiOk
                THEN [@ EXCEPT !.pc = "update",
                               !.messages = Append(@, Entry("assistant", reply))]
                ELSE Sent(open, "error")]
    /\ UNCHANGED <<users, projects, logs, pcr, ingestVars, chats, clock, openai, ms, last>>

\* The update appends the two new entries to the stored list.
UpdateChatAppends(w, open) ==
    /\ ws[w].pc = "update"
    /\ chats' = [chats EXCEPT ![ws[w].chat].messages =
                                  @ \o SubSeq(ws[w].messages, Len(ws[w].messages) - 1,
                                              Len(ws[w].messages)),
                              ![ws[w].chat].updatedAt = clock]
    /\ ws' = [ws EXCEPT ![w] = Sent(open, "ai_response")]
    /\ clock' = clock + 1
    /\ UNCHANGED <<users, projects, logs, pcr, ingestVars, openai, ms, last>>

\* await updateAiChat(chat.id, messages); send the ai_response frame.
UpdateChat(w, open) ==
    /\ ws[w].pc = "update"
    /\ chats' = [chats EXCEPT ![ws[w].chat].messages = ws[w].messages,
                              ![ws[w].chat].updatedAt = clock]
    /\ ws' = [ws EXCEPT ![w] = Sent(open, "ai_response")]
    /\ clock' = clock + 1
    /\ UNCHANGED <<users, projects, logs, pcr, ingestVars, openai, ms, last>>

\* GET /api/ai/chat/:userId?projectId=: requireAuth, then getAiChat for the
\* userId of the path.
GetChat(hdr, userId, projectId) ==
    /\ last' = IF ~requireAuth(hdr)
               THEN Respond("getChat", hdr, userId, 401, 0)
               ELSE Respond("getChat", hdr, userId, 200, getAiChat(userId, projectId))
    /\ UNCHANGED <<users, projects, logs, pcr, ingestVars, chatVars, openai, ms>>

----------------------------------------------------------------------------
(* POST /api/ai/modify-schema *)

Schemas == {"s1", "s2"}
ExitCodes == {0, 1}

\* The body: command, and projectId or not.
ModifyBodies ==
    {[command |-> "c"]} \cup {[command |-> "c", projectId |-> p] : p \in TargetIds}

\* What processSchemaCommand parses out of the completion.
AiResults ==
    {[success |-> FALSE]} \cup {[success |-> TRUE, modifiedSchema |-> s] : s \in Schemas}

\* res.status(status).json(...): the handler is over.
Answered(req, status) ==
    [req EXCEPT !.pc = "done", !.status = status, !.responses = @ + 1]

\* The 'close' callback is an async function called by the event emitter:
\* a rejected await inside it reaches no catch block, and so does an
\* 'error' event of the child, which has no listener. No response is sent.
Unanswered(req) == [req EXCEPT !.pc = "lost"]

\* requireAuth; with a projectId, getProject (404) and the ownership
\* check (403); then await processSchemaCommand.
PostModifySchema(m, hdr, body) ==
    /\ ms[m].pc = "idle"
    /\ \A q \in 1..(m - 1) : ms[q].pc # "idle"    \* slots are taken in order
    /\ LET projectId == Field(body, "projectId", NoProject)
           req == [ms[m] EXCEPT !.hdr = hdr, !.project = projectId]
       IN ms' = [ms EXCEPT ![m] =
                   IF ~requireAuth(hdr) THEN Answered(req, 401)
                   ELSE IF projectId # NoProject /\ projectId \notin ProjectIds
                        THEN Answered(req, 404)
                   ELSE IF projectId # NoProject /\ ~IsOwner(hdr, projectId)
                        THEN Answered(req, 403)
                   ELSE [req EXCEPT !.pc = "ai"]]
    /\ UNCHANGED <<users, projects, logs, pcr, ingestVars, chatVars, openai, last>>

\* processSchemaCommand returns: checkOpenAI or the call threw (500); or
\* the result is not a success or there is no projectId (res.json(aiResult));
\* or spawn('python3', ...) is called, which starts the child or throws.
ProcessSchemaCommand(m, aiOk, aiResult, spawned) ==
    /\ ms[m].pc = "ai"
    /\ ms' = [ms EXCEPT ![m] =
                IF ~openai \/ ~aiOk THEN Answered(@, 500)
                ELSE IF ~(aiResult.success /\ ms[m].project # NoProject)
                     THEN Answered([@ EXCEPT !.success = aiResult.success,
                                             !.schema = Field(aiResult, "modifiedSchema", "null")],
                                   200)
                ELSE [@ EXCEPT !.pc = IF spawned THEN "running" ELSE "fallback",
                               !.success = TRUE,
                               !.schema = aiResult.modifiedSchema]]
    /\ UNCHANGED <<users, projects, logs, pcr, ingestVars, chatVars, openai, last>>

\* catch (chimeraError): await createLog (WARNING), res.json; a throw of
\* createLog reaches the outer catch (500).
ChimeraFallback(m, dbOk) ==
    /\ ms[m].pc = "fallback"
    /\ logs' = IF dbOk THEN createLog(ms[m].project, "WARNING") ELSE logs
    /\ ms' = [ms EXCEPT ![m] = Answered(@, IF dbOk THEN 200 ELSE 500)]
    /\ UNCHANGED <<users, projects, pcr, ingestVars, chatVars, openai, last>>

\* The child could not be started: it emits 'error', which has no listener.
ForemanError(m) ==
    /\ ms[m].pc = "running"
    /\ ms' = [ms EXCEPT ![m] = Unanswered(@)]
    /\ UNCHANGED <<users, projects, logs, pcr, ingestVars, chatVars, openai, last>>

\* The update is made whatever the exit code.
ForemanCloseIgnoresCode(m, code, dbOk) ==
    /\ ms[m].pc = "running"
    /\ logs' = logs
    /\ ms' = [ms EXCEPT ![m] =
                IF ~dbOk THEN Unanswered([@ EXCEPT !.code = Num(code)])
                ELSE [@ EXCEPT !.code = Num(code),
                               !.pc = IF ResultsOf(ms[m].project) # {}
                                      THEN "update" ELSE "log"]]
    /\ UNCHANGED <<users, projects, pcr, ingestVars, chatVars, openai, last>>

\* foreman.on('close'): with code 0, await getAnalysisResult; otherwise
\* await createLog (WARNING) and res.json.
ForemanClose(m, code, dbOk) ==
    /\ ms[m].pc = "running"
    /\ logs' = IF code # 0 /\ dbOk THEN createLog(ms[m].project, "WARNING") ELSE logs
    /\ ms' = [ms EXCEPT ![m] =
                IF ~dbOk THEN Unanswered([@ EXCEPT !.code = Num(code)])
                ELSE IF code # 0 THEN Answered([@ EXCEPT !.code = Num(code)], 200)
                ELSE [@ EXCEPT !.code = Num(code),
                               !.pc = IF ResultsOf(ms[m].project) # {}
                                      THEN "update" ELSE "log"]]
    /\ UNCHANGED <<users, projects, pcr, ingestVars, chatVars, openai, last>>

\* await updateAnalysisResult(projectId, {schema}): every row of the project.
UpdateSchema(m, dbOk) ==
    /\ ms[m].pc = "update"
    /\ analysis' = IF ~dbOk THEN analysis
                   ELSE [a \in 1..Len(analysis) |->
                           IF analysis[a].projectId = ms[m].project
                           THEN [analysis[a] EXCEPT !.schema = ms[m].schema]
                           ELSE analysis[a]]
    /\ ms' = [ms EXCEPT ![m] = IF dbOk THEN [@ EXCEPT !.pc = "log"] ELSE Unanswered(@)]
    /\ UNCHANGED <<users, projects, logs, files, up, pcr, chatVars, openai, last>>

\* await createLog (SUCCESS), res.json.
LogModified(m, dbOk) ==
    /\ ms[m].pc = "log"
    /\ logs' = IF dbOk THEN createLog(ms[m].project, "SUCCESS") ELSE logs
    /\ ms' = [ms EXCEPT ![m] = IF dbOk THEN Answered(@, 200) ELSE Unanswered(@)]
    /\ UNCHANGED <<users, projects, pcr, ingestVars, chatVars, openai, last>>

----------------------------------------------------------------------------
(* Specifications *)

Register == \E body \in UserBodies : CreateUser(NoHeader, body)
RegisterDefault == \E body \in DefaultUserBodies : CreateUser(NoHeader, body)
StartProject(r) == \E hdr \in Headers : PostProjects(r, hdr)
InsertProject(r) == \E body \in ProjectBodies : CreateProject(r, body)
RegisterOne == CreateUser(NoHeader, [firebaseUid |-> "uidA"])
UpgradeOwn == \E id \in UserIds : UpgradeAccount(users[id].firebaseUid, id)
VerifiedWebhook == \E ev \in Events : StripeWebhook(TRUE, TRUE, ev)

ProjectCreation(r) ==
    \/ StartProject(r)
    \/ CheckCanCreate(r)
    \/ InsertProject(r)
    \/ DeductCredit(r)
    \/ LogProjectCreated(r)

\* Registration with any body, one project-creation request.
Next ==
    \/ Register
    \/ ProjectCreation(1)

Spec == Init /\ [][Next]_vars

\* Users registered by the client's body (no tier, no credits in it) who are
\* never upgraded nor reset; concurrent project creations.
NextCreate ==
    \/ RegisterDefault
    \/ \E r \in Reqs : ProjectCreation(r)

SpecCreate == Init /\ [][NextCreate]_vars

\* One account registered by the client's body, its concurrent project
\* creations, manual upgrades and verified billing events.
NextBilling ==
    \/ RegisterOne
    \/ \E r \in Reqs : ProjectCreation(r)
    \/ UpgradeOwn
    \/ VerifiedWebhook

SpecBilling == Init /\ [][NextBilling]_vars

\* GET /api/users/firebase/:uid: no requireAuth.
GetUserByUid(hdr, uid) ==
    /\ last' = Respond("getUser", hdr, 0, 200, getUserByFirebaseUid(uid))
    /\ UNCHANGED <<users, projects, logs, pcr, ingestVars, chatVars, openai, ms>>

RegisterAs == \E hdr \in Headers, body \in DefaultUserBodies : CreateUser(hdr, body)
LookupUser == \E hdr \in Headers, uid \in Uids : GetUserByUid(hdr, uid)
ReadProject == \E hdr \in Headers, id \in TargetIds : GetProject(hdr, id)
ReadResults == \E hdr \in Headers, id \in TargetIds : GetResults(hdr, id)
ReadLogs == \E hdr \in Headers, id \in TargetIds : GetLogs(hdr, id)
Review == \E hdr \in Headers, id \in TargetIds, aiOk \in BOOLEAN : GenerateReview(hdr, id, aiOk)
StartUpload(u) == \E hdr \in Headers, id \in TargetIds, body \in UploadBodies :
                      PostFiles(u, hdr, id, body)
Aggregate(u) == \E analysed \in SUBSET up[u].read : AnalyzeFiles(u, analysed)
Store(u) == \E dbOk \in BOOLEAN : StoreAnalysis(u, dbOk)

Upload(u) ==
    \/ StartUpload(u)
    \/ SaveFile(u)
    \/ ReadFiles(u)
    \/ SkipAnalysis(u)
    \/ Aggregate(u)
    \/ Store(u)
    \/ CompleteUpload(u)
    \/ FailUpload(u)

\* Project access: registration, one project creation, one upload and the
\* read endpoints of a project, each with any caller header.
NextAccess ==
    \/ RegisterDefault
    \/ ProjectCreation(1)
    \/ ReadProject
    \/ ReadResults
    \/ ReadLogs
    \/ Review
    \/ Upload(1)

SpecAccess == Init /\ [][NextAccess]_vars

\* The project of the first account, created by the client's body.
CreateFirstProject ==
    \/ PostProjects(1, "uidA")
    \/ CheckCanCreate(1)
    \/ CreateProject(1, [name |-> "p"])
    \/ DeductCredit(1)
    \/ LogProjectCreated(1)

\* Ingestion: one account, one project creation, one upload with any
\* caller header and any body.
NextIngest ==
    \/ RegisterOne
    \/ ProjectCreation(1)
    \/ Upload(1)

SpecIngest == Init /\ [][NextIngest]_vars

StartOwnUpload(u) == \E body \in UploadBodies : PostFiles(u, "uidA", 1, body)

\* Interleaved ingestion: the owner's uploads to one project, in flight
\* together.
NextUploads ==
    \/ RegisterOne
    \/ CreateFirstProject
    \/ \E u \in Uploads :
          \/ StartOwnUpload(u)
          \/ SaveFile(u)
          \/ ReadFiles(u)
          \/ SkipAnalysis(u)
          \/ Aggregate(u)
          \/ Store(u)
          \/ CompleteUpload(u)
          \/ FailUpload(u)

SpecUploads == Init /\ [][NextUploads]_vars

\* Authentication: every endpoint above with any caller header, and the
\* endpoints of the users resource.
NextAuth ==
    \/ RegisterAs
    \/ LookupUser
    \/ ProjectCreation(1)
    \/ ReadProject
    \/ ReadResults
    \/ ReadLogs
    \/ Review
    \/ Upload(1)

SpecAuth == Init /\ [][NextAuth]_vars

Receive(w) == \E open \in BOOLEAN, frame \in Frames : ReceiveFrame(w, open, frame)
Create(w) == \E open \in BOOLEAN : CreateChat(w, open)
Answer(w) == \E open, aiOk \in BOOLEAN, reply \in Replies : ChatResponse(w, open, aiOk, reply)
Update(w) == \E open \in BOOLEAN : UpdateChat(w, open)
ReadChat == \E hdr \in Headers, userId \in KnownIds, projectId \in TargetIds \cup {NoProject} :
                GetChat(hdr, userId, projectId)

Relay(w) ==
    \/ Receive(w)
    \/ Create(w)
    \/ Answer(w)
    \/ Update(w)

\* Chat: registration, concurrent chat messages and the history endpoint.
NextChat ==
    \/ RegisterDefault
    \/ \E w \in Sockets : Relay(w)
    \/ ReadChat

SpecChat == Init /\ [][NextChat]_vars

\* Frames that name the first account, or no account.
OwnFrames == {frame \in Frames : Has(frame, "userId") => frame.userId = 1}
ReceiveOwn(w) == \E open \in BOOLEAN, frame \in OwnFrames : ReceiveFrame(w, open, frame)
ReadOwnChat == \E projectId \in TargetIds \cup {NoProject} : GetChat("uidA", 1, projectId)

OwnRelay(w) ==
    \/ ReceiveOwn(w)
    \/ Create(w)
    \/ Answer(w)
    \/ Update(w)

\* The relay: one account, concurrent chat messages in its name, and the
\* account reading its own history. No project exists: a chat message that
\* names one fails in createAiChat.
NextRelay ==
    \/ RegisterOne
    \/ \E w \in Sockets : OwnRelay(w)
    \/ ReadOwnChat

SpecRelay == Init /\ [][NextRelay]_vars

\* Chats with and without a project: the same with the account's project.
NextScoped ==
    \/ RegisterOne
    \/ CreateFirstProject
    \/ \E w \in Sockets : OwnRelay(w)
    \/ ReadOwnChat

SpecScoped == Init /\ [][NextScoped]_vars

\* Results: one account, one project creation, one upload, and the results
\* endpoint with any caller header.
NextResults ==
    \/ RegisterOne
    \/ ProjectCreation(1)
    \/ Upload(1)
    \/ ReadResults

SpecResults == Init /\ [][NextResults]_vars

Webhook == \E sigOk, retrieveOk \in BOOLEAN, ev \in Events : StripeWebhook(sigOk, retrieveOk, ev)

\* Billing events: accounts registered with any body (any tier and credits)
\* and webhook requests with any signature and event.
NextWebhook ==
    \/ Register
    \/ Webhook

SpecWebhook == Init /\ [][NextWebhook]_vars

\* The owner uploads one file to the first project.
UploadOneFile ==
    \/ PostFiles(1, "uidA", 1, [files |-> <<[filename |-> "a.tsx", path |-> "src"]>>])
    \/ SaveFile(1)
    \/ ReadFiles(1)
    \/ SkipAnalysis(1)
    \/ Aggregate(1)
    \/ Store(1)
    \/ CompleteUpload(1)
    \/ FailUpload(1)

StartModify(m) == \E hdr \in Headers, body \in ModifyBodies : PostModifySchema(m, hdr, body)
AskSchema(m) == \E aiOk \in BOOLEAN, aiResult \in AiResults, spawned \in BOOLEAN :
                    ProcessSchemaCommand(m, aiOk, aiResult, spawned)
Fallback(m) == \E dbOk \in BOOLEAN : ChimeraFallback(m, dbOk)
Close(m) == \E code \in ExitCodes, dbOk \in BOOLEAN : ForemanClose(m, code, dbOk)
ApplySchema(m) == \E dbOk \in BOOLEAN : UpdateSchema(m, dbOk)
LogSchema(m) == \E dbOk \in BOOLEAN : LogModified(m, dbOk)

\* The steps of a schema-modification handler after the request arrived.
ModifyStep(m) ==
    \/ AskSchema(m)
    \/ Fallback(m)
    \/ ForemanError(m)
    \/ Close(m)
    \/ ApplySchema(m)
    \/ LogSchema(m)

\* Schema modification: two accounts, the first one's project and upload of
\* one file, and schema-modification requests with any caller header.
NextModify ==
    \/ RegisterDefault
    \/ CreateFirstProject
    \/ UploadOneFile
    \/ \E m \in Mods : StartModify(m) \/ ModifyStep(m)

SpecModify == Init /\ [][NextModify]_vars

\* Node runs every callback whose event has arrived: a handler that can
\* take a step takes one.
SpecModifyLive == SpecModify /\ \A m \in Mods : WF_vars(ModifyStep(m))

TypeOK ==
    /\ \A i \in UserIds :
         /\ users[i].firebaseUid \in Uids
         /\ users[i].accountTier \in {"free", "pro"}
    /\ \A p \in ProjectIds : projects[p].userId \in UserIds
    /\ \A r \in Reqs : pcr[r].pc \in {"idle", "gate", "create", "deduct", "log", "done"}

----------------------------------------------------------------------------
(* Accounts and credits *)

ProjectsOf(i) == {p \in ProjectIds : projects[p].userId = i}

\* Handler r takes a step.
Steps(r) == pcr'[r] # pcr[r]

\* C1: in every reachable state, every user whose accountTier is 'pro' has
\* credits null.
C1_ProHasNullCredits ==
    \A i \in UserIds : users[i].accountTier = "pro" => IsNull(users[i].credits)

\* C2: in every reachable state, every user's stored credits is null or an
\* integer >= 0.
C2_CreditsNeverNegative ==
    \A i \in UserIds : IsNull(users[i].credits) \/ Val(users[i].credits) >= 0

\* C3: a project-creation request whose credit gate finds the user free-tier
\* with credits 0 is rejected with 403, and that ends the handler: it creates
\* no project row and leaves the users table as it was.
C3_ZeroCreditsRejected ==
    [][\A r \in Reqs :
         (/\ pcr[r].pc = "gate"
          /\ Steps(r)
          /\ users[pcr[r].user].accountTier = "free"
          /\ users[pcr[r].user].credits = Num(0))
         => (/\ pcr'[r] = Done(403)
             /\ projects' = projects
             /\ users' = users)]_vars

\* C3 witness: a request was rejected while its user is free with credits 0
\* and owns the project that used the credit up.
C3_Witness ==
    \E r \in Reqs :
        /\ pcr[r] = Done(403)
        /\ \E i \in UserIds :
             /\ users[i].accountTier = "free"
             /\ users[i].credits = Num(0)
             /\ Cardinality(ProjectsOf(i)) = 1

\* C4: when the one project-creation request of a free-tier user who had
\* credits 1 completes, there is exactly one project row, its status is
\* 'pending', and the user has credits 0.
C4_OneCreditOneProject ==
    [][\A r \in Reqs :
         (/\ pcr[r].pc = "log"
          /\ pcr'[r] = Done(200)
          /\ pcr[r].tier = "free"
          /\ pcr[r].credits = Num(1))
         => (/\ Len(projects') = 1
             /\ projects'[pcr[r].project].status = "pending"
             /\ users'[pcr[r].user].credits = Num(0))]_vars

\* C5: a user registered with one credit, never upgraded nor reset, owns at
\* most one project, however the creation requests interleave.
C5_ProjectsWithinCredits ==
    \A i \in UserIds : Cardinality(ProjectsOf(i)) <= 1

\* C6: a project-creation request by a user who is 'pro' passes the credit
\* gate (the stored tier is 'pro'), and no step of a request that read the
\* user as 'pro' changes any user's credits, whatever their value.
C6_ProAllowedAndUncharged ==
    [][\A r \in Reqs :
         /\ (pcr[r].pc = "gate" /\ Steps(r) /\ users[pcr[r].user].accountTier = "pro")
            => pcr'[r].pc = "create"
         /\ (pcr[r].pc # "idle" /\ Steps(r) /\ pcr[r].tier = "pro")
            => users' = users]_vars

\* C6 witness: a request of a 'pro' user whose credits are not null has
\* created its project, and the credits are what the request read.
C6_Witness ==
    \E r \in Reqs :
        /\ pcr[r].pc = "log"
        /\ pcr[r].tier = "pro"
        /\ ~IsNull(pcr[r].credits)
        /\ users[pcr[r].user].accountTier = "pro"
        /\ users[pcr[r].user].credits = pcr[r].credits

\* C7: every row the user-creation operation inserts has accountTier 'free'
\* and credits 1.
C7_NewUserFreeOneCredit ==
    [][Len(users') > Len(users)
         => (/\ users'[Len(users')].accountTier = "free"
             /\ users'[Len(users')].credits = Num(1))]_vars

ProjectEndpoints == {"getProject", "upload", "getResults", "getLogs", "review"}

\* The caller's header resolves to a user who is not the owner of project id.
NonOwner(hdr, id) ==
    /\ id \in ProjectIds
    /\ \E i \in UserIds : users[i].firebaseUid = hdr /\ projects[id].userId # i

\* C8: a request to a project-keyed endpoint (get project, upload files, get
\* results, get logs, generate review) whose header resolves to a user who
\* does not own the project is answered 403 and changes no table; and no
\* upload ever gets past the preamble for a user who does not own the project.
C8_NonOwnerForbidden ==
    [][/\ (/\ last' # last
           /\ last'.ep \in ProjectEndpoints
           /\ NonOwner(last'.hdr, last'.target))
          => (/\ last'.status = 403
              /\ UNCHANGED <<users, projects, logs, files, analysis, chats, up>>)
       /\ \A u \in Uploads :
            (up[u].pc = "idle" /\ up'[u].pc # "idle")
              => projects[up'[u].project].userId = up'[u].user]_vars

\* C8 witness: the upload endpoint has answered 403 to a registered user
\* naming another user's project.
C8_Witness ==
    /\ last.ep = "upload"
    /\ last.status = 403
    /\ NonOwner(last.hdr, last.target)

\* C9: the chat-history endpoint hands a chat row only to the user the row
\* belongs to: a registered caller never receives another user's chat.
C9_ChatOnlyToOwner ==
    (/\ last.ep = "getChat"
     /\ last.status = 200
     /\ last.data # 0
     /\ getUserByFirebaseUid(last.hdr) # NoUser)
        => chats[last.data].userId = getUserByFirebaseUid(last.hdr)

\* C10: every response to a request without the x-firebase-uid header is a
\* 401.
C10_NoHeaderUnauthorized ==
    (last.ep # "none" /\ last.hdr = NoHeader) => last.status = 401

----------------------------------------------------------------------------
(* Ingestion claims *)

\* N, the number of file tuples of an upload body.
NumFiles(body) == IF Has(body, "files") THEN Len(body.files) ELSE 0

\* Every tuple of the body passes insertProjectFileSchema.
AllValid(body) ==
    /\ Has(body, "files")
    /\ \A k \in 1..Len(body.files) : ValidFile(body.files[k])

\* The project_files rows of project p in a table; the log rows of project
\* p at a level in a table.
FileRows(tbl, p) == Cardinality({f \in 1..Len(tbl) : tbl[f].projectId = p})
Logged(tbl, p, level) == CopiesIn([projectId |-> p, level |-> level], tbl)

\* Upload u takes a step; it responds in this step.
Moves(u) == up'[u] # up[u]
Finishes(u) == up[u].pc # "done" /\ up'[u].pc = "done"

\* The log rows at a level, and the file rows, this step adds to project p.
NewLogs(p, level) == Logged(logs', p, level) - Logged(logs, p, level)
NewFiles(p) == FileRows(files', p) - FileRows(files, p)

\* The outcome entries a step adds to project p.
NewOutcomes(p) == NewLogs(p, "SUCCESS") + NewLogs(p, "WARNING") + NewLogs(p, "ERROR")

C13_AnalysisFailureMarksError ==
    [][\A u \in Uploads :
         Moves(u) =>
           /\ up'[u].pc = "failed" => openai
           /\ up[u].pc = "failed"
                => /\ Finishes(u)
                   /\ up'[u].status = 500
                   /\ projects'[up'[u].project].status = "error"
                   /\ NewLogs(up'[u].project, "ERROR") = 1
                   /\ NewOutcomes(up'[u].project) = 1
           /\ up[u].pc # "failed" => NewLogs(up'[u].project, "ERROR") = 0]_vars

\* C13 witness: with a credential, the analysis of an upload threw; the
\* project is 'error' and holds one ERROR entry.
C13_Witness ==
    \E u \in Uploads :
        /\ openai
        /\ up[u].pc = "done"
        /\ up[u].status = 500
        /\ up[u].saved = NumFiles(up[u].body)
        /\ AllValid(up[u].body)
        /\ projects[up[u].project].status = "error"
        /\ Logged(logs, up[u].project, "ERROR") = 1

Statuses == {"pending", "processing", "completed", "error"}

\* C14: a project's status is one of pending, processing, completed, error;
\* no step makes it 'pending' again; and a step that changes a status which
\* is 'completed' or 'error' makes it 'processing'.
C14_StatusLifecycle ==
    [][\A p \in ProjectIds :
         /\ projects'[p].status \in Statuses
         /\ projects'[p].status = "pending" => projects[p].status = "pending"
         /\ (/\ projects[p].status \in {"completed", "error"}
             /\ projects'[p].status # projects[p].status)
              => projects'[p].status = "processing"]_vars

----------------------------------------------------------------------------
(* Chat claims *)

\* The pairs a chat message or a history read may name.
ChatProjects == TargetIds \cup {NoProject}

\* The list ends with the entries {user, x} and {assistant, y}.
EndsWith(m, x, y) ==
    /\ Len(m) >= 2
    /\ m[Len(m) - 1].role = "user"
    /\ m[Len(m) - 1].content = x
    /\ m[Len(m)].role = "assistant"
    /\ m[Len(m)].content = y

NonDecreasing(m) == \A k \in 1..(Len(m) - 1) : m[k].timestamp <= m[k + 1].timestamp

\* Message w is processed in this step: its list is persisted.
Processed(w) == ws[w].pc = "update" /\ ws'[w].pc = "done"

C16_LastWriteWins ==
    [][\A w \in Sockets :
         Processed(w)
           => /\ chats'[ws[w].chat].messages = ws[w].messages
              /\ Len(chats') = Len(chats)
              /\ \A c \in 1..Len(chats) :
                   c # ws[w].chat => chats'[c] = chats[c]]_vars

\* C16 witness: two messages of one pair were both processed and answered
\* on open sockets, and the one chat row holds the two entries of only one.
C16_Witness ==
    /\ Len(chats) = 1
    /\ Len(chats[1].messages) = 2
    /\ \E w, q \in Sockets :
         /\ w # q
         /\ ws[w].pc = "done" /\ ws[w].frame = "ai_response" /\ ws[w].delivered
         /\ ws[q].pc = "done" /\ ws[q].frame = "ai_response" /\ ws[q].delivered

\* Message w fails in this step, the socket being open or not: the frame is
\* not JSON, the credential is missing, createAiChat throws, or the AI call
\* throws.
Failure(w, open) ==
    \/ ReceiveFrame(w, open, [malformed |-> TRUE])
    \/ \E frame \in ChatFrames : ReceiveFrame(w, open, frame) /\ ws'[w].pc = "done"
    \/ CreateChat(w, open) /\ ws'[w].pc = "done"
    \/ \E reply \in Replies : ChatResponse(w, open, FALSE, reply)

\* C17: a failing step answers with one error frame, sent exactly when the
\* socket is open, leaves every stored chat row as it is (a row created in
\* the step has an empty list) and leaves every other message of the relay,
\* received or not yet received, as it is.
C17_FailureReported ==
    [][\A w \in Sockets, open \in BOOLEAN :
         Failure(w, open)
           => /\ ws'[w].pc = "done"
              /\ ws'[w].frame = "error"
              /\ ws'[w].delivered = open
              /\ \A q \in Sockets : q # w => ws'[q] = ws[q]
              /\ \A c \in 1..Len(chats) : chats'[c] = chats[c]
              /\ \A c \in (Len(chats) + 1)..Len(chats') : chats'[c].messages = <<>>]_vars

\* C17 witness: a message failed and its error frame went out; a later
\* message was processed and answered, and the stored list holds only the
\* entries of the later one.
C17_Witness ==
    \E w, q \in Sockets :
        /\ w < q
        /\ ws[w].pc = "done" /\ ws[w].frame = "error" /\ ws[w].delivered
        /\ ws[q].pc = "done" /\ ws[q].frame = "ai_response" /\ ws[q].delivered
        /\ Len(chats) = 1
        /\ Len(chats[1].messages) = 2

----------------------------------------------------------------------------
(* Billing webhook claims *)

Upgrades == {"customer.subscription.created", "customer.subscription.updated"}

\* C18: a webhook request whose signature does not verify is answered 400
\* and changes no user row and no other table, whatever the event.
C18_BadSignatureRejected ==
    [][\A retrieveOk \in BOOLEAN, ev \in Events :
         StripeWebhook(FALSE, retrieveOk, ev)
           => /\ last'.ep = "webhook"
              /\ last'.status = 400
              /\ UNCHANGED <<users, projects, logs>>]_vars

\* C18 witness: with a 'pro' and a 'free' account stored, a webhook request
\* has been answered 400.
C18_Witness ==
    /\ last.ep = "webhook"
    /\ last.status = 400
    /\ \E i, j \in UserIds : users[i].accountTier = "pro" /\ users[j].accountTier = "free"

\* C19: a verified customer.subscription.deleted event whose customer names
\* a stored user leaves that user 'free' with credits 1, whatever the row
\* held, and leaves every other user row as it is.
C19_DeletedResetsUser ==
    [][\A ev \in Events :
         (/\ ev.type = "customer.subscription.deleted"
          /\ Has(ev, "userId")
          /\ StripeWebhook(TRUE, TRUE, ev))
           => (ev.userId \in UserIds
                 => /\ Len(users') = Len(users)
                    /\ users'[ev.userId].accountTier = "free"
                    /\ users'[ev.userId].credits = Num(1)
                    /\ users'[ev.userId].firebaseUid = users[ev.userId].firebaseUid
                    /\ \A j \in UserIds : j # ev.userId => users'[j] = users[j])]_vars

\* C19 witness: a user was upgraded (one activation entry, nobody holds null
\* credits any more) and a webhook request has been answered 200: the
\* upgraded user was reset, next to a user whose credits are 0.
C19_Witness ==
    /\ last.ep = "webhook"
    /\ last.status = 200
    /\ Len(users) = 2
    /\ LogCount(NoProject, "INFO") = 1
    /\ \A i \in UserIds : ~IsNull(users[i].credits)
    /\ \E i, j \in UserIds :
         /\ users[i].accountTier = "free" /\ users[i].credits = Num(1)
         /\ users[j].credits = Num(0)

\* C20: a verified subscription created or updated event makes the user its
\* customer names 'pro' with credits null when the subscription status is
\* 'active', and changes no other user; with another status, or with no
\* user id on the customer, it changes no user.
C20_ActiveUpgrades ==
    [][\A ev \in Events :
         (ev.type \in Upgrades /\ StripeWebhook(TRUE, TRUE, ev))
           => /\ Len(users') = Len(users)
              /\ \A j \in UserIds :
                   IF Has(ev, "userId") /\ ev.status = "active" /\ ev.userId = j
                   THEN /\ users'[j].accountTier = "pro"
                        /\ users'[j].credits = Null
                        /\ users'[j].firebaseUid = users[j].firebaseUid
                   ELSE users'[j] = users[j]]_vars

\* C20 witness: an activation was handled and answered 200: a user stored
\* next to a free user with credits 0 is 'pro' with credits null.
C20_Witness ==
    /\ last.ep = "webhook"
    /\ last.status = 200
    /\ LogCount(NoProject, "INFO") = 1
    /\ \E i, j \in UserIds :
         /\ users[i].accountTier = "pro" /\ IsNull(users[i].credits)
         /\ users[j].accountTier = "free" /\ users[j].credits = Num(0)

----------------------------------------------------------------------------
(* Analysis results claims *)

\* C21: the results endpoint answers the owner of a project with the default
\* object (data 0) exactly when no AnalysisResult row of the project is
\* stored (rows are never deleted), and otherwise with a stored row of that
\* project.
C21_DefaultIffNoResult ==
    [][(/\ last' # last
        /\ last'.ep = "getResults"
        /\ last'.status = 200)
         => /\ last'.target \in ProjectIds
            /\ projects[last'.target].userId = getUserByFirebaseUid(last'.hdr)
            /\ (last'.data = 0) <=> (ResultsOf(last'.target) = {})
            /\ last'.data # 0 => last'.data \in ResultsOf(last'.target)
            /\ Len(analysis') >= Len(analysis)]_vars

\* C21 witness: the owner has been answered with the stored AnalysisResult
\* of the project.
C21_Witness ==
    /\ last.ep = "getResults"
    /\ last.status = 200
    /\ last.data # 0
    /\ analysis[last.data].projectId = last.target

\* C22: no step of an upload whose body holds an invalid tuple changes the
\* project's status, the ProjectFile rows or the log.
C22_InvalidUploadChangesNothing ==
    [][\A u \in Uploads :
         (Moves(u) /\ ~AllValid(up'[u].body))
           => UNCHANGED <<projects, files, logs>>]_vars

\* C23: a request whose body fails schema validation is answered 400: a
\* project creation that ends at the insert (its body has no name), an
\* upload whose body holds an invalid tuple.
C23_ValidationAnswers400 ==
    [][/\ \A r \in Reqs :
            (pcr[r].pc = "create" /\ pcr'[r].pc = "done") => pcr'[r].status = 400
       /\ \A u \in Uploads :
            (Finishes(u) /\ ~AllValid(up'[u].body)) => up'[u].status = 400]_vars

\* C24: at most one AnalysisResult row is stored per project.
C24_OneResultPerProject ==
    \A p \in ProjectIds : Cardinality(ResultsOf(p)) <= 1

\* C25: no step removes or changes a ProjectFile row or removes an INFO
\* entry; and when the analysis of an upload has failed for a reason other
\* than the missing credential, all the files of the body being saved, the
\* handler answers 500 and marks the project 'error' while the rows and
\* INFO entries it wrote stay in the store.
C25_FailedAnalysisKeepsFiles ==
    [][/\ Len(files') >= Len(files)
       /\ \A f \in 1..Len(files) : files'[f] = files[f]
       /\ \A p \in ProjectIds : Logged(logs', p, "INFO") >= Logged(logs, p, "INFO")
       /\ \A u \in Uploads :
            (up[u].pc = "failed" /\ Moves(u))
              => /\ up'[u].pc = "done"
                 /\ up'[u].status = 500
                 /\ up'[u].saved = NumFiles(up'[u].body)
                 /\ projects'[up'[u].project].status = "error"
                 /\ FileRows(files', up'[u].project) >= up'[u].saved
                 /\ Logged(logs', up'[u].project, "INFO") >= up'[u].saved]_vars

\* C25 witness: an upload of two files was answered 500 after its analysis
\* failed; its two rows and INFO entries are stored, the project is 'error'.
C25_Witness ==
    \E u \in Uploads :
        /\ openai
        /\ up[u].pc = "done"
        /\ up[u].status = 500
        /\ AllValid(up[u].body)
        /\ up[u].saved = 2
        /\ FileRows(files, up[u].project) = 2
        /\ Logged(logs, up[u].project, "INFO") = 3
        /\ Logged(logs, up[u].project, "ERROR") = 1
        /\ projects[up[u].project].status = "error"

\* C26: a processed chat message writes only a row whose userId and
\* projectId are those of the message, and the history endpoint called
\* without projectId returns no project-scoped row.
C26_ChatScopedToPair ==
    [][/\ \A w \in Sockets :
            Processed(w)
              => /\ chats[ws[w].chat].userId = ws[w].userId
                 /\ chats[ws[w].chat].projectId = ws[w].projectId
       /\ \A hdr \in Headers, i \in KnownIds :
            (GetChat(hdr, i, NoProject) /\ last'.status = 200 /\ last'.data # 0)
              => chats[last'.data].projectId = NoProject]_vars

\* C27: at most one AiChat row exists per (userId, projectId) pair.
C27_OneChatPerPair ==
    \A c, d \in 1..Len(chats) :
        (chats[c].userId = chats[d].userId /\ chats[c].projectId = chats[d].projectId)
          => c = d

\* C28: whatever files the per-file AI call fails for, the analysis goes on
\* to the save with the entries of the files it succeeded for and of no
\* other file; the save stores exactly these entries in the project's
\* AnalysisResult; and the upload then ends 200 with the project
\* 'completed'. Only the save itself makes the analysis fail.
C28_FileFailureSkipped ==
    [][\A u \in Uploads :
         /\ \A analysed \in SUBSET up[u].read :
              AnalyzeFiles(u, analysed)
                => /\ up'[u].pc = "store"
                   /\ up'[u].astData = {files[f].filename : f \in analysed}
                   /\ \A f \in up[u].read :
                        (\A g \in analysed : files[g].filename # files[f].filename)
                          => files[f].filename \notin up'[u].astData
         /\ (Moves(u) /\ up'[u].pc = "failed") => up[u].pc = "store"
         /\ (up[u].pc = "store" /\ up'[u].pc = "analysed")
              => /\ ResultsOf(up[u].project)' # {}
                 /\ \A a \in ResultsOf(up[u].project)' :
                      analysis'[a].astData = up[u].astData
         /\ (up[u].pc = "analysed" /\ Moves(u))
              => /\ up'[u].pc = "done"
                 /\ up'[u].status = 200
                 /\ projects'[up'[u].project].status = "completed"]_vars

\* C28 witness: an upload of a.tsx and b.tsx was answered 200 and the
\* project is 'completed', while its AnalysisResult holds the entry of one
\* of the two files only.
C28_Witness ==
    \E u \in Uploads :
        /\ openai
        /\ up[u].pc = "done"
        /\ up[u].status = 200
        /\ up[u].saved = 2
        /\ projects[up[u].project].status = "completed"
        /\ {files[f].filename : f \in FilesOf(up[u].project)} = FileNames
        /\ \E a \in ResultsOf(up[u].project) : Cardinality(analysis[a].astData) = 1

----------------------------------------------------------------------------
(* Schema-modification claims *)

\* Handler m of the schema-modification endpoint takes a step.
Modifies(m) == ms'[m] # ms[m]

\* C29: a step of a schema-modification handler changes the table
\* analysis_results only when the AI result reported success, the
\* projectId of the body names a project of the caller, the subprocess
\* exited with code 0 and the project has an AnalysisResult; the step then
\* sets the schema of the project's rows to the modified schema and
\* changes nothing else. Every other step of a handler, whatever its
\* outcome, leaves the table as it is.
C29_SchemaChangedOnlyOnSuccess ==
    [][\A m \in Mods :
         (Modifies(m) /\ analysis' # analysis)
           => /\ ms[m].success
              /\ ms[m].project \in ProjectIds
              /\ IsOwner(ms[m].hdr, ms[m].project)
              /\ ms[m].code = Num(0)
              /\ ResultsOf(ms[m].project) # {}
              /\ Len(analysis') = Len(analysis)
              /\ \A a \in 1..Len(analysis) :
                   analysis'[a] =
                     IF a \in ResultsOf(ms[m].project)
                     THEN [analysis[a] EXCEPT !.schema = ms[m].schema]
                     ELSE analysis[a]]_vars

\* C29 witness: a request of the owner was answered 200 after the
\* subprocess exited with code 0, and the project's AnalysisResult holds
\* the modified schema.
C29_Witness ==
    \E m \in Mods :
        /\ ms[m].pc = "done"
        /\ ms[m].status = 200
        /\ ms[m].code = Num(0)
        /\ ms[m].schema \in Schemas
        /\ ResultsOf(ms[m].project) # {}
        /\ \A a \in ResultsOf(ms[m].project) : analysis[a].schema = ms[m].schema

\* C30: every schema-modification request that passed requireAuth, the
\* project lookup and the ownership check is eventually answered, and no
\* request is answered twice.
C30_EveryRequestAnswered ==
    /\ \A m \in Mods : ms[m].pc = "ai" ~> ms[m].responses = 1
    /\ [](\A m \in Mods : ms[m].responses <= 1)

====
